---- MODULE Spec2Model ----
(***************************************************************************)
(* The piano progress tracker.  Derived statistics:                        *)
(*   calculateStreak        (src/src/utils/streak.ts)                      *)
(*   aggregatePracticeByDay (src/unnamed/part_003, utils/aggregation)      *)
(*   calculateLevelProgress (src/unnamed/part_003, utils/aggregation)      *)
(* Authentication:                                                         *)
(*   AuthService  (src/src/services/api/auth.service.ts)                   *)
(*   AuthProvider (AuthContext, PracticeSessionForm.tsx:464-540)           *)
(* Practice log:                                                           *)
(*   usePracticeSessions (src/unnamed/part_002:62-131)                     *)
(*   PracticeLogPage (src/src/features/practice-log/PracticeLogPage.tsx)   *)
(*                                                                         *)
(* Time.  A JavaScript Date is an instant; getTime() is in milliseconds.   *)
(* Every instant the code handles here is a whole hour (date-only strings  *)
(* parse to UTC midnight, setHours(0,0,0,0) yields a local midnight, and   *)
(* the time zones modelled have whole-hour offsets), so instants are kept  *)
(* in HOURS, counted from 2024-01-01T00:00:00Z.  The code only subtracts   *)
(* and compares instants, which is independent of the origin; the divisor  *)
(* 1000*60*60*24 ms of streak.ts:24 is HoursPerDay in this unit.           *)
(*                                                                         *)
(* Ratings average.  averageRating is kept as an exact fraction            *)
(* [num, den]: the incremental-mean expression of the code is evaluated    *)
(* as written, in exact arithmetic (IEEE rounding is not modelled).        *)
(***************************************************************************)
EXTENDS Integers, Sequences, FiniteSets, TLC

VARIABLES
    sessions,       \* the argument array of the call
    tz,             \* the runtime's local time zone (ambient)
    now,            \* the instant `new Date()` returns (ambient clock)
    pc,             \* "idle" before the call, "done" after it returned
    streak,         \* value returned by calculateStreak
    dailyPractice,  \* value returned by aggregatePracticeByDay
    items,          \* the syllabusItems argument of calculateLevelProgress
    level,          \* the level argument of calculateLevelProgress
    levelProgress,  \* value returned by calculateLevelProgress
    trace,          \* names of the functions called so far, in order
    outcome,        \* how the latest call ended: "returned" or "threw"
    profiles,       \* backend table public.users: display_name by user id
    svcCall,        \* the latest AuthService call and the backend's answers
    svcResult,      \* how the promise of that call settled
    inserts,        \* the rows that call passed to from('users').insert
    user,           \* AuthProvider state `user`
    loading,        \* AuthProvider state `loading`
    initialCall,    \* the getCurrentUser promise of the mount effect:
                    \* pending, or how it settled
    pending,        \* AuthProvider operations awaiting the service
    completion,     \* how the latest AuthProvider operation settled
    lastEvent,      \* the user carried by the latest auth-state-change
                    \* event, while no operation has settled since
    signedOut,      \* a sign-out succeeded and nothing has delivered a
                    \* user since
    logSessions,    \* usePracticeSessions state `sessions`
    logLoading,     \* usePracticeSessions state `loading`
    loadError,      \* usePracticeSessions state `error`
    requests,       \* usePracticeSessions operations awaiting the service
    settled,        \* how the latest of these operations settled
    showForm,       \* PracticeLogPage state `showForm`
    editingSession, \* PracticeLogPage state `editingSession`
    pageError,      \* PracticeLogPage state `error`
    submitted       \* the request the mounted PracticeSessionForm awaits
                    \* (its state `submitting` is true), or null

vars == <<sessions, tz, now, pc, streak, dailyPractice,
          items, level, levelProgress, trace, outcome,
          profiles, svcCall, svcResult, inserts,
          user, loading, initialCall, pending, completion,
          lastEvent, signedOut,
          logSessions, logLoading, loadError, requests, settled,
          showForm, editingSession, pageError, submitted>>

\* The variables of the practice log: the hook's and the page's.
logVars == <<logSessions, logLoading, loadError, requests, settled,
             showForm, editingSession, pageError, submitted>>

\* The variables of the authentication layer.
serviceVars == <<profiles, svcCall, svcResult, inserts>>
providerVars == <<user, loading, initialCall, pending, completion,
                  lastEvent, signedOut>>

\* JavaScript's undefined and null where a string may stand, the absence of
\* a row in a table, and the absence of an error in a backend answer.
Undefined == "<undefined>"
NullValue == "<null>"
NoRow == "<no row>"
NoError == "<no error>"

\* null where a User or an auth user may stand, and the value of a
\* Promise<void>.
Null == [null |-> TRUE]
Void == [void |-> TRUE]

\* No auth-state-change event is on record.
NoEvent == [none |-> TRUE]

UserIds == {"user-1", "user-2"}

\* The practice log page before it is mounted.
LogIdle ==
    /\ logSessions = <<>>
    /\ logLoading = TRUE
    /\ loadError = NullValue
    /\ requests = {}
    /\ settled = [op |-> "none"]
    /\ showForm = FALSE
    /\ editingSession = Null
    /\ pageError = NullValue
    /\ submitted = Null

\* The authentication layer while the statistics functions are studied.
AuthIdle ==
    /\ profiles = [id \in UserIds |-> NoRow]
    /\ svcCall = [method |-> "none"]
    /\ svcResult = [kind |-> "none"]
    /\ inserts = <<>>
    /\ user = Null
    /\ loading = TRUE
    /\ initialCall = [kind |-> "pending"]
    /\ pending = {}
    /\ completion = [op |-> "none"]
    /\ lastEvent = NoEvent
    /\ signedOut = FALSE

\* The variables that the calls of calculateStreak and
\* aggregatePracticeByDay neither read nor write, and their values while
\* those two functions are studied on their own.
otherVars == <<items, level, levelProgress>>

\* No call has been made yet.
NothingCalled == trace = <<>> /\ outcome = "none"

OthersIdle ==
    /\ items = <<>>
    /\ level = "RCM 1"
    /\ levelProgress = 0

(***************************************************************************)
(* Bounds of the model.                                                    *)
(***************************************************************************)
MaxStreakSessions == 4
MaxAggSessions == 3
MaxItems == 2           \* item lists of every content and order up to here
MaxLevelItems == 40     \* items at the queried level in a roster
MaxOtherItems == 1      \* items of another level in a roster
MaxRosterItems == 200   \* items at the queried level in a lopsided roster
MaxOdd == 2             \* items of the rarer status in a lopsided roster

BoundedSeq(S, n) == UNION {[1..k -> S] : k \in 0..n}

(***************************************************************************)
(* Canonical date strings and their parsing.                               *)
(***************************************************************************)
DateStrings ==
    {"2024-03-28", "2024-03-29", "2024-03-30", "2024-03-31",
     "2024-04-01", "2024-04-02"}

\* The YYYY, MM and DD fields the parser reads out of a canonical string.
DateFields(s) ==
    CASE s = "2024-03-28" -> [year |-> 2024, month |-> 3, day |-> 28]
      [] s = "2024-03-29" -> [year |-> 2024, month |-> 3, day |-> 29]
      [] s = "2024-03-30" -> [year |-> 2024, month |-> 3, day |-> 30]
      [] s = "2024-03-31" -> [year |-> 2024, month |-> 3, day |-> 31]
      [] s = "2024-04-01" -> [year |-> 2024, month |-> 4, day |-> 1]
      [] s = "2024-04-02" -> [year |-> 2024, month |-> 4, day |-> 2]

HoursPerDay == 24

IsLeapYear(y) == (y % 4 = 0 /\ y % 100 # 0) \/ y % 400 = 0

DaysInMonth(y, m) ==
    IF m = 2 THEN (IF IsLeapYear(y) THEN 29 ELSE 28)
    ELSE IF m \in {4, 6, 9, 11} THEN 30 ELSE 31

RECURSIVE DaysBeforeMonth(_, _)
DaysBeforeMonth(y, m) ==
    IF m = 1 THEN 0 ELSE DaysBeforeMonth(y, m - 1) + DaysInMonth(y, m - 1)

RECURSIVE DaysBeforeYear(_)
DaysBeforeYear(y) ==
    IF y = 2024 THEN 0
    ELSE DaysBeforeYear(y - 1) + (IF IsLeapYear(y - 1) THEN 366 ELSE 365)

\* Day number of a civil date, 2024-01-01 being day 0.
DaysFromCivil(f) ==
    DaysBeforeYear(f.year) + DaysBeforeMonth(f.year, f.month) + (f.day - 1)

\* new Date("YYYY-MM-DD").getTime(): a date-only string is UTC midnight.
DateParse(s) == HoursPerDay * DaysFromCivil(DateFields(s))

(***************************************************************************)
(* The local time zone of the runtime.                                     *)
(***************************************************************************)
TimeZones == {"UTC", "Europe/Berlin", "America/New_York"}

\* 2024-03-31T01:00:00Z: Europe/Berlin goes from CET (+1) to CEST (+2).
BerlinSpringForward ==
    DateParse("2024-03-31") + 1

\* Hours to add to a UTC instant to get local wall-clock time.  New York is
\* on EDT (-4) during the whole period covered by DateStrings.
UtcOffset(zone, t) ==
    CASE zone = "UTC" -> 0
      [] zone = "Europe/Berlin" -> IF t < BerlinSpringForward THEN 1 ELSE 2
      [] zone = "America/New_York" -> 0 - 4

ZoneOffsets(zone) ==
    CASE zone = "UTC" -> {0}
      [] zone = "Europe/Berlin" -> {1, 2}
      [] zone = "America/New_York" -> {0 - 4}

\* Number of the local calendar day that contains instant t.
LocalDay(zone, t) == (t + UtcOffset(zone, t)) \div HoursPerDay

\* d.setHours(0, 0, 0, 0): the instant of local midnight of d's local day.
SetHoursMidnight(zone, t) ==
    LET wall == HoursPerDay * LocalDay(zone, t)
    IN  CHOOSE u \in {wall - o : o \in ZoneOffsets(zone)} :
            u + UtcOffset(zone, u) = wall

(***************************************************************************)
(* calculateStreak                                                         *)
(***************************************************************************)
\* Mutant of UniqueInOrder: the dates are not deduplicated.
KeepDuplicates(ds) == ds

\* Array.from(new Set(dates)): first occurrences, in insertion order.
RECURSIVE UniqueInOrder(_)
UniqueInOrder(ds) ==
    IF ds = <<>> THEN <<>>
    ELSE LET front == UniqueInOrder(SubSeq(ds, 1, Len(ds) - 1))
             last == ds[Len(ds)]
         IN  IF \E i \in 1..Len(front) : front[i] = last
             THEN front ELSE Append(front, last)

\* Comparator of streak.ts:14: negative when a sorts before b.
CompareDesc(a, b) == DateParse(b) - DateParse(a)

\* Insert x into a sequence sorted by CompareDesc, after its equals (stable).
RECURSIVE InsertDesc(_, _)
InsertDesc(sorted, x) ==
    IF sorted = <<>> THEN <<x>>
    ELSE IF CompareDesc(x, Head(sorted)) < 0
         THEN <<x>> \o sorted
         ELSE <<Head(sorted)>> \o InsertDesc(Tail(sorted), x)

\* A list of session records ordered as CompareDesc orders their dates.
RECURSIVE InsertSessionDesc(_, _)
InsertSessionDesc(s, sorted) ==
    IF sorted = <<>> THEN <<s>>
    ELSE IF CompareDesc(s.date, Head(sorted).date) <= 0
         THEN <<s>> \o sorted
         ELSE <<Head(sorted)>> \o InsertSessionDesc(s, Tail(sorted))

RECURSIVE SortSessionsDesc(_)
SortSessionsDesc(ss) ==
    IF ss = <<>> THEN <<>>
    ELSE InsertSessionDesc(Head(ss), SortSessionsDesc(Tail(ss)))

\* Mutant of SortDesc: the dates are walked in input order.
Unsorted(ds) == ds

\* Array.prototype.sort with CompareDesc (a stable sort).
RECURSIVE SortDesc(_)
SortDesc(ds) ==
    IF ds = <<>> THEN <<>>
    ELSE InsertDesc(SortDesc(SubSeq(ds, 1, Len(ds) - 1)), ds[Len(ds)])

UniqueDates(ss) ==
    SortDesc(UniqueInOrder([i \in 1..Len(ss) |-> ss[i].date]))

\* One loop iteration's test (streak.ts:27).
InStreak(diffDays) == diffDays = 0 \/ diffDays = 1

\* The for loop of streak.ts:19-33 from index i on.
RECURSIVE StreakWalk(_, _, _, _, _)
StreakWalk(zone, uniqueDates, i, currentDate, count) ==
    IF i > Len(uniqueDates) THEN count
    ELSE LET sessionDate == SetHoursMidnight(zone, DateParse(uniqueDates[i]))
             diffDays == (currentDate - sessionDate) \div HoursPerDay
         IN  IF InStreak(diffDays)
             THEN StreakWalk(zone, uniqueDates, i + 1, sessionDate, count + 1)
             ELSE count

\* Mutant of SessionsAfterStreak: the comparator sort is applied to the
\* argument array itself.
SessionsSortedInPlace(ss) ==
    SortSessionsDesc(ss)

\* The argument array after the call.  streak.ts:12-14 reads it with map,
\* which builds a new array; Array.from builds another, and that one is
\* sorted.  No statement assigns to an element or to a field of a record.
SessionsAfterStreak(ss) == ss

\* Mutant of StreakCompletion: an empty array is rejected with an error.
StreakRejectsEmpty(ss) == IF Len(ss) = 0 THEN "threw" ELSE "returned"

\* How the call ends.  streak.ts:6-36 has no throw statement, and map,
\* Set, Array.from, sort, new Date, setHours, getTime and Math.floor are
\* total on an array of records with a date string; the loop of lines 19-33
\* visits each unique date at most once.
StreakCompletion(ss) == "returned"

CalculateStreak(ss, zone, clock) ==
    IF Len(ss) = 0 THEN 0
    ELSE LET today == SetHoursMidnight(zone, clock)
         IN  StreakWalk(zone, UniqueDates(ss), 1, today, 0)

(***************************************************************************)
(* Specification SpecStreak: one call of calculateStreak on an arbitrary   *)
(* bounded argument, in an arbitrary zone, at one of three instants.       *)
(***************************************************************************)
Clocks ==
    {DateParse("2024-03-31") + 12,
     DateParse("2024-04-01") + 2,
     DateParse("2024-04-01") + 12}

InitStreak ==
    /\ sessions \in BoundedSeq([date : DateStrings], MaxStreakSessions)
    /\ tz \in TimeZones
    /\ now \in Clocks
    /\ pc = "idle"
    /\ streak = 0
    /\ dailyPractice = <<>>
    /\ OthersIdle
    /\ NothingCalled
    /\ AuthIdle
    /\ LogIdle

CallCalculateStreak ==
    /\ pc = "idle"
    /\ streak' = CalculateStreak(sessions, tz, now)
    /\ outcome' = StreakCompletion(sessions)
    /\ sessions' = SessionsAfterStreak(sessions)
    /\ trace' = Append(trace, "calculateStreak")
    /\ pc' = "done"
    /\ UNCHANGED <<tz, now, dailyPractice>>
    /\ UNCHANGED otherVars
    /\ UNCHANGED <<serviceVars, providerVars, logVars>>

NextStreak == CallCalculateStreak

SpecStreak == InitStreak /\ [][NextStreak]_vars

(***************************************************************************)
(* Vocabulary of the claims about calculateStreak: calendar days.          *)
(***************************************************************************)
\* Calendar day number of a canonical date string.
DayOf(s) == DaysFromCivil(DateFields(s))

DateSet(ss) == {ss[i].date : i \in 1..Len(ss)}

PracticedDays == {DayOf(d) : d \in DateSet(sessions)}

\* The caller's local calendar day at the time of the call.
LocalToday == LocalDay(tz, now)

MostRecentDay == CHOOSE d \in PracticedDays : \A e \in PracticedDays : e <= d

\* Number of consecutive days d, d-1, ... that all belong to S.
RECURSIVE RunEndingAt(_, _)
RunEndingAt(S, d) == IF d \in S THEN 1 + RunEndingAt(S, d - 1) ELSE 0

\* C1: when the most recent record is dated the caller's local today, the
\* result is the length k of the run of practiced days today, today-1, ...,
\* today-k+1 (today-k not practiced).
C1_StreakEndingToday ==
    (pc = "done" /\ sessions # <<>> /\ MostRecentDay = LocalToday)
        => streak = RunEndingAt(PracticedDays, LocalToday)

\* C2: when the most recent record is dated the day before the caller's
\* local today, in any time zone, the result is the length (at least 1) of
\* the run of practiced days ending yesterday.
C2_StreakEndingYesterday ==
    (pc = "done" /\ sessions # <<>> /\ MostRecentDay = LocalToday - 1)
        => /\ streak = RunEndingAt(PracticedDays, LocalToday - 1)
           /\ streak >= 1

\* C3: when the most recent record is dated two or more calendar days
\* before today, the result is 0.
C3_StaleHistoryIsZero ==
    (pc = "done" /\ sessions # <<>> /\ MostRecentDay <= LocalToday - 2)
        => streak = 0

\* Days that are followed (going back in time) by a gap: an earlier
\* practiced day exists and the day before is not practiced.
GapTops ==
    {a \in PracticedDays :
        (a - 1) \notin PracticedDays /\ \E b \in PracticedDays : b < a}

FirstGapTop == CHOOSE a \in GapTops : \A b \in GapTops : b <= a

\* C4: the walk stops at the first pair of successive distinct dates two or
\* more calendar days apart: the result counts only dates before that gap,
\* and records dated earlier than the gap, added or removed, never change it.
C4_StopsAtFirstGap ==
    (pc = "done" /\ GapTops # {})
        => /\ streak <= Cardinality({d \in PracticedDays : d >= FirstGapTop})
           /\ streak = CalculateStreak(
                  SelectSeq(sessions, LAMBDA s : DayOf(s.date) >= FirstGapTop),
                  tz, now)
           /\ \A d \in DateStrings :
                  DayOf(d) < FirstGapTop - 1
                      => CalculateStreak(Append(sessions, [date |-> d]), tz, now)
                             = streak

\* The distinct dates of S as records, in ascending calendar order.
RECURSIVE AscendingRecords(_)
AscendingRecords(S) ==
    IF S = {} THEN <<>>
    ELSE LET m == CHOOSE d \in S : \A e \in S : DayOf(d) <= DayOf(e)
         IN  <<[date |-> m]>> \o AscendingRecords(S \ {m})

\* C5: the result depends only on the set of distinct date strings of the
\* input: it equals the result for that set listed once each in a fixed
\* order, whatever the order and the repetitions of the records.
C5_DependsOnDateSetOnly ==
    pc = "done"
        => streak = CalculateStreak(AscendingRecords(DateSet(sessions)), tz, now)

C5_Witness ==
    /\ pc = "done"
    /\ streak >= 2
    /\ Len(sessions) > Cardinality(DateSet(sessions))
    /\ \E i \in 1..(Len(sessions) - 1) :
           DayOf(sessions[i].date) < DayOf(sessions[i + 1].date)

\* C6: the result is an integer between 0 and the number of distinct dates
\* of the input; the empty input gives 0.
C6_StreakWithinDistinctDates ==
    pc = "done"
        => /\ streak \in 0..Cardinality(DateSet(sessions))
           /\ (sessions = <<>> => streak = 0)

C6_Witness ==
    /\ pc = "done"
    /\ streak = Cardinality(DateSet(sessions))
    /\ streak >= 2
    /\ Len(sessions) > streak

(***************************************************************************)
(* Exact arithmetic on the numbers of the ratings average: fractions in    *)
(* lowest terms with a positive denominator.                               *)
(***************************************************************************)
RECURSIVE Gcd(_, _)
Gcd(a, b) == IF b = 0 THEN a ELSE Gcd(b, a % b)

Frac(n, d) ==
    LET g == Gcd(IF n < 0 THEN 0 - n ELSE n, d)
    IN  [num |-> n \div g, den |-> d \div g]

FracOfInt(k) == [num |-> k, den |-> 1]
FracTimesInt(a, k) == Frac(a.num * k, a.den)
FracPlusInt(a, k) == Frac(a.num + k * a.den, a.den)
FracDivInt(a, k) == Frac(a.num, a.den * k)

(***************************************************************************)
(* aggregatePracticeByDay                                                  *)
(***************************************************************************)
\* Mutant of MapIndex: the lookup never finds the day.
NeverFound(dayMap, date) == 0

\* dayMap.get(date): dayMap is the Map's entries in insertion order; the
\* result is the position of the entry with that key, 0 for undefined.
MapIndex(dayMap, date) ==
    IF \E k \in 1..Len(dayMap) : dayMap[k].date = date
    THEN CHOOSE k \in 1..Len(dayMap) : dayMap[k].date = date
    ELSE 0

\* Mutant of IncrementalMean: the old average is weighted by the new count.
MeanWeightedByNewCount(averageRating, sessionCount, rating) ==
    FracDivInt(
        FracPlusInt(FracTimesInt(averageRating, sessionCount), rating),
        sessionCount)

\* part_003:25-27, sessionCount being the count already incremented:
\* (averageRating * (sessionCount - 1) + rating) / sessionCount
IncrementalMean(averageRating, sessionCount, rating) ==
    FracDivInt(
        FracPlusInt(FracTimesInt(averageRating, sessionCount - 1), rating),
        sessionCount)

\* Mutant of UpdateExisting: the minutes are overwritten, not added.
OverwriteExisting(existing, session) ==
    [date |-> existing.date,
     totalMinutes |-> session.durationMinutes,
     sessionCount |-> existing.sessionCount + 1,
     averageRating |-> IncrementalMean(existing.averageRating,
                                       existing.sessionCount + 1,
                                       session.rating)]

\* The `if (existing)` branch, part_003:22-27.
UpdateExisting(existing, session) ==
    [date |-> existing.date,
     totalMinutes |-> existing.totalMinutes + session.durationMinutes,
     sessionCount |-> existing.sessionCount + 1,
     averageRating |-> IncrementalMean(existing.averageRating,
                                       existing.sessionCount + 1,
                                       session.rating)]

\* The `else` branch, part_003:29-34.
NewDay(session) ==
    [date |-> session.date,
     totalMinutes |-> session.durationMinutes,
     sessionCount |-> 1,
     averageRating |-> FracOfInt(session.rating)]

\* The for loop of part_003:19-36 from index i on.
RECURSIVE AccumulateDays(_, _, _)
AccumulateDays(ss, i, dayMap) ==
    IF i > Len(ss) THEN dayMap
    ELSE LET session == ss[i]
             k == MapIndex(dayMap, session.date)
         IN  IF k # 0
             THEN AccumulateDays(ss, i + 1,
                      [dayMap EXCEPT ![k] = UpdateExisting(dayMap[k], session)])
             ELSE AccumulateDays(ss, i + 1, Append(dayMap, NewDay(session)))

\* Mutant of CompareAsc: only the day-of-month fields are compared.
CompareDayOfMonth(a, b) == DateFields(a.date).day - DateFields(b.date).day

\* Comparator of part_003:39: negative when a sorts before b.
CompareAsc(a, b) == DateParse(a.date) - DateParse(b.date)

RECURSIVE InsertAsc(_, _)
InsertAsc(sorted, x) ==
    IF sorted = <<>> THEN <<x>>
    ELSE IF CompareAsc(x, Head(sorted)) < 0
         THEN <<x>> \o sorted
         ELSE <<Head(sorted)>> \o InsertAsc(Tail(sorted), x)

\* Array.prototype.sort with CompareAsc (a stable sort).
RECURSIVE SortAsc(_)
SortAsc(es) ==
    IF es = <<>> THEN <<>>
    ELSE InsertAsc(SortAsc(SubSeq(es, 1, Len(es) - 1)), es[Len(es)])

\* Mutant of NewDayMap: the map outlives the call and still holds the
\* entries of the previous result.
DayMapKeptAcrossCalls == dailyPractice

\* part_003:17: every call starts from a map of its own, empty.
NewDayMap == <<>>

\* How the call ends.  part_003:14-41 has no throw statement; Map get and
\* set, the arithmetic of lines 23-27, Array.from and sort are total, and
\* the loop of lines 19-36 visits each element once.
AggregateCompletion(ss) == "returned"

\* The argument array after the call.  Lines 23-27 assign to fields of
\* `existing`, a record created at lines 29-34 and owned by the map, never
\* to a record of the argument; the sort of line 38 orders a new array.
SessionsAfterAggregate(ss) == ss

AggregatePracticeByDay(ss) == SortAsc(AccumulateDays(ss, 1, NewDayMap))

(***************************************************************************)
(* Specification SpecAgg: one call of aggregatePracticeByDay on an         *)
(* arbitrary bounded argument.  The function reads neither the clock nor   *)
(* the local time zone.                                                    *)
(***************************************************************************)
AggDates == {"2024-03-30", "2024-03-31", "2024-04-01"}
Durations == {20, 30}
Ratings == {0, 3, 4}

InitAgg ==
    /\ sessions \in BoundedSeq(
           [date : AggDates, durationMinutes : Durations, rating : Ratings],
           MaxAggSessions)
    /\ tz = "UTC"
    /\ now = DateParse("2024-04-01") + 12
    /\ pc = "idle"
    /\ streak = 0
    /\ dailyPractice = <<>>
    /\ OthersIdle
    /\ NothingCalled
    /\ AuthIdle
    /\ LogIdle

CallAggregatePracticeByDay ==
    /\ pc = "idle"
    /\ dailyPractice' = AggregatePracticeByDay(sessions)
    /\ outcome' = AggregateCompletion(sessions)
    /\ sessions' = SessionsAfterAggregate(sessions)
    /\ trace' = Append(trace, "aggregatePracticeByDay")
    /\ pc' = "done"
    /\ UNCHANGED <<tz, now, streak>>
    /\ UNCHANGED otherVars
    /\ UNCHANGED <<serviceVars, providerVars, logVars>>

NextAgg == CallAggregatePracticeByDay

SpecAgg == InitAgg /\ [][NextAgg]_vars

(***************************************************************************)
(* Vocabulary of the claims about aggregatePracticeByDay.                  *)
(***************************************************************************)
\* Indices of the input records dated `date`.
RecordsOn(date) == {i \in 1..Len(sessions) : sessions[i].date = date}

RECURSIVE SumDurations(_)
SumDurations(I) ==
    IF I = {} THEN 0
    ELSE LET i == CHOOSE j \in I : TRUE
         IN  sessions[i].durationMinutes + SumDurations(I \ {i})

RECURSIVE SumRatings(_)
SumRatings(I) ==
    IF I = {} THEN 0
    ELSE LET i == CHOOSE j \in I : TRUE
         IN  sessions[i].rating + SumRatings(I \ {i})

RECURSIVE SumTotalMinutes(_)
SumTotalMinutes(es) ==
    IF es = <<>> THEN 0 ELSE Head(es).totalMinutes + SumTotalMinutes(Tail(es))

RECURSIVE SumSessionCounts(_)
SumSessionCounts(es) ==
    IF es = <<>> THEN 0 ELSE Head(es).sessionCount + SumSessionCounts(Tail(es))

\* Calendar order of two canonical dates, field by field.
CalendarBefore(a, b) ==
    LET fa == DateFields(a)
        fb == DateFields(b)
    IN  \/ fa.year < fb.year
        \/ fa.year = fb.year /\ fa.month < fb.month
        \/ fa.year = fb.year /\ fa.month = fb.month /\ fa.day < fb.day

\* C7: the output holds exactly one entry per distinct date string of the
\* input and no other entry; the empty input gives the empty list.
C7_OneEntryPerInputDate ==
    pc = "done"
        => /\ {dailyPractice[k].date : k \in 1..Len(dailyPractice)}
                  = DateSet(sessions)
           /\ \A j, k \in 1..Len(dailyPractice) :
                  dailyPractice[j].date = dailyPractice[k].date => j = k
           /\ (sessions = <<>> => dailyPractice = <<>>)

C7_Witness ==
    /\ pc = "done"
    /\ Len(sessions) = 3
    /\ Len(dailyPractice) = 2
    /\ dailyPractice[1].date = "2024-03-30"
    /\ dailyPractice[2].date = "2024-04-01"

\* C8: each entry's totalMinutes is the sum of the durations, and its
\* sessionCount the number, of the input records with its date; the totals
\* add up to the sum of all durations and the counts to the input length.
C8_TotalsAndCounts ==
    pc = "done"
        => /\ \A k \in 1..Len(dailyPractice) :
                  LET e == dailyPractice[k]
                  IN  /\ e.totalMinutes = SumDurations(RecordsOn(e.date))
                      /\ e.sessionCount = Cardinality(RecordsOn(e.date))
           /\ SumTotalMinutes(dailyPractice) = SumDurations(1..Len(sessions))
           /\ SumSessionCounts(dailyPractice) = Len(sessions)

C8_Witness ==
    /\ pc = "done"
    /\ \E k \in 1..Len(dailyPractice) :
           /\ dailyPractice[k].sessionCount = 2
           /\ dailyPractice[k].totalMinutes = 50
    /\ Len(dailyPractice) = 2

\* C9: each entry's averageRating is the arithmetic mean of the ratings of
\* all input records with its date, unrated records counting as 0:
\* averageRating * sessionCount = sum of those ratings, exactly.
C9_AverageIsArithmeticMean ==
    pc = "done"
        => \A k \in 1..Len(dailyPractice) :
               LET e == dailyPractice[k]
               IN  /\ e.averageRating.den > 0
                   /\ e.averageRating.num * e.sessionCount
                          = SumRatings(RecordsOn(e.date)) * e.averageRating.den

C9_Witness ==
    /\ pc = "done"
    /\ \E k \in 1..Len(dailyPractice) :
           /\ dailyPractice[k].sessionCount = 3
           /\ dailyPractice[k].averageRating = [num |-> 7, den |-> 3]
           /\ \E i \in RecordsOn(dailyPractice[k].date) : sessions[i].rating = 0

\* C10: the returned list is strictly ascending by calendar date, for every
\* order of the input records.
C10_AscendingByDate ==
    pc = "done"
        => \A j, k \in 1..Len(dailyPractice) :
               j < k => CalendarBefore(dailyPractice[j].date,
                                       dailyPractice[k].date)

C10_Witness ==
    /\ pc = "done"
    /\ Len(dailyPractice) = 3
    /\ sessions[1].date = "2024-04-01"
    /\ sessions[2].date = "2024-03-30"
    /\ sessions[3].date = "2024-03-31"

(***************************************************************************)
(* IEEE 754 double arithmetic of `(completed / levelItems.length) * 100`   *)
(* and Math.round (part_003:59).  A positive double is                     *)
(*     [zero |-> FALSE, mant |-> <<b1, ..., b53>>, exp |-> e]              *)
(* with b1 = 1, of value (b1.b2...b53 in binary) * 2^e; mantissas are bit  *)
(* sequences, most significant bit first, because they exceed the integer  *)
(* range of the checker.  Results are rounded to nearest, ties to even.    *)
(***************************************************************************)
Precision == 53

DoubleZero == [zero |-> TRUE, mant |-> <<>>, exp |-> 0]

RECURSIVE Pow2(_)
Pow2(k) == IF k = 0 THEN 1 ELSE 2 * Pow2(k - 1)

\* The integer n < 2^w as w bits, most significant first.
IntToBits(n, w) == [i \in 1..w |-> (n \div Pow2(w - i)) % 2]

RECURSIVE BitLength(_)
BitLength(n) == IF n = 0 THEN 0 ELSE 1 + BitLength(n \div 2)

\* The bit sequence plus one; one bit longer when all bits were 1.
Increment(bits) ==
    IF \A i \in 1..Len(bits) : bits[i] = 1
    THEN <<1>> \o [i \in 1..Len(bits) |-> 0]
    ELSE LET j == CHOOSE i \in 1..Len(bits) :
                      bits[i] = 0 /\ \A h \in (i + 1)..Len(bits) : bits[h] = 1
         IN  [i \in 1..Len(bits) |->
                 IF i < j THEN bits[i] ELSE IF i = j THEN 1 ELSE 0]

\* The exact integer `bits` (most significant first, leading 1, at least
\* Precision + 1 bits), followed by a non-zero tail iff `sticky`, rounded to
\* Precision bits: [mant, carry], carry = 1 when rounding reached the next
\* power of two.
RoundToPrecision(bits, sticky) ==
    LET kept == SubSeq(bits, 1, Precision)
        guard == bits[Precision + 1]
        tail == sticky \/ \E i \in (Precision + 2)..Len(bits) : bits[i] = 1
        up == guard = 1 /\ (tail \/ kept[Precision] = 1)
        sum == IF up THEN Increment(kept) ELSE kept
    IN  IF Len(sum) > Precision
        THEN [mant |-> SubSeq(sum, 1, Precision), carry |-> 1]
        ELSE [mant |-> sum, carry |-> 0]

\* Least k with c * 2^k >= m, for 0 < c <= m.
RECURSIVE LeadShift(_, _)
LeadShift(c, m) == IF c >= m THEN 0 ELSE 1 + LeadShift(2 * c, m)

\* 2^j modulo m, by repeated squaring.
RECURSIVE Pow2Mod(_, _)
Pow2Mod(j, m) ==
    IF j = 0 THEN 1 % m
    ELSE LET h == Pow2Mod(j \div 2, m)
         IN  (((h * h) % m) * (IF j % 2 = 1 THEN 2 ELSE 1)) % m

\* Long division of r by m (r < m): the remainder left after j quotient
\* bits is r * 2^j mod m, and quotient bit j is 1 iff twice the remainder
\* before it reaches m.
RemainderAfter(r, m, j) == (r * Pow2Mod(j, m)) % m

LongDivision(r, m, n) ==
    [bits |-> [j \in 1..n |->
                  IF 2 * RemainderAfter(r, m, j - 1) >= m THEN 1 ELSE 0],
     rem |-> RemainderAfter(r, m, n)]

\* The double c / m, for integers 0 <= c <= m, m > 0.
DoubleDivide(c, m) ==
    IF c = 0 THEN DoubleZero
    ELSE LET k == LeadShift(c, m)
             q == LongDivision(c * Pow2(k) - m, m, Precision)
             r == RoundToPrecision(<<1>> \o q.bits, q.rem # 0)
         IN  [zero |-> FALSE, mant |-> r.mant, exp |-> r.carry - k]

RECURSIVE BitsToInt(_)
BitsToInt(bits) ==
    IF bits = <<>> THEN 0
    ELSE 2 * BitsToInt(SubSeq(bits, 1, Len(bits) - 1)) + bits[Len(bits)]

\* Width of the limbs in which a significand is multiplied.
LimbBits == 18

\* The double x * 100.  The exact product of the significand by 100 is
\* formed limb by limb (17 + 18 + 18 bits), then rounded.
DoubleTimes100(x) ==
    IF x.zero THEN DoubleZero
    ELSE LET base == Pow2(LimbBits)
             hi == BitsToInt(SubSeq(x.mant, 1, Precision - 2 * LimbBits))
             mid == BitsToInt(SubSeq(x.mant, Precision - 2 * LimbBits + 1,
                                     Precision - LimbBits))
             lo == BitsToInt(SubSeq(x.mant, Precision - LimbBits + 1,
                                    Precision))
             p0 == lo * 100
             p1 == mid * 100 + p0 \div base
             p2 == hi * 100 + p1 \div base
             product == IntToBits(p2, BitLength(p2))
                            \o IntToBits(p1 % base, LimbBits)
                            \o IntToBits(p0 % base, LimbBits)
             r == RoundToPrecision(product, FALSE)
         IN  [zero |-> FALSE, mant |-> r.mant,
              exp |-> x.exp + (Len(product) - Precision) + r.carry]

\* Math.round of a double 0 <= x < 2^Precision: the nearest integer, a
\* fraction of exactly one half going up.
MathRound(x) ==
    IF x.zero \/ x.exp < 0 - 1 THEN 0
    ELSE IF x.exp = 0 - 1 THEN 1
    ELSE BitsToInt(SubSeq(x.mant, 1, x.exp + 1)) + x.mant[x.exp + 2]

(***************************************************************************)
(* calculateLevelProgress                                                  *)
(***************************************************************************)
\* Upper-case letters folded to lower case.
LowerCase(s) ==
    CASE s = "RCM 1" -> "rcm 1"
      [] s = "RCM 2" -> "rcm 2"
      [] OTHER -> s

\* Mutant of LevelMatches: levels are compared ignoring case.
LevelMatchesIgnoringCase(itemLevel, queried) ==
    LowerCase(itemLevel) = LowerCase(queried)

\* The filter predicate of part_003:53: strict string equality.
LevelMatches(itemLevel, queried) == itemLevel = queried

\* The filter predicate of part_003:57.
IsCompleted(status) == status = "completed"

\* Mutant of RoundedPercent: the percentage is truncated.
TruncatedPercent(completed, total) == (100 * completed) \div total

\* part_003:59 for `completed` of `total` items, total > 0.
RoundedPercent(completed, total) ==
    MathRound(DoubleTimes100(DoubleDivide(completed, total)))

\* How the call ends.  part_003:49-60 has no throw statement; filter and
\* Math.round are total, and a division by zero is excluded by line 55.
LevelCompletion(syllabusItems, lv) == "returned"

\* The argument array after the call: filter (part_003:53, 57) builds new
\* arrays and the callbacks only read.
ItemsAfterLevelProgress(syllabusItems) == syllabusItems

CalculateLevelProgress(syllabusItems, lv) ==
    LET levelItems ==
            SelectSeq(syllabusItems, LAMBDA item : LevelMatches(item.level, lv))
    IN  IF Len(levelItems) = 0 THEN 0
        ELSE LET completed ==
                     Len(SelectSeq(levelItems,
                                   LAMBDA item : IsCompleted(item.status)))
             IN  RoundedPercent(completed, Len(levelItems))

(***************************************************************************)
(* Specification SpecLevel: one call of calculateLevelProgress.  The       *)
(* argument is any list of up to MaxItems items, or a roster: up to        *)
(* MaxLevelItems items of level "RCM 1", the completed ones first, behind  *)
(* up to MaxOtherItems completed items whose level differs in case only.   *)
(***************************************************************************)
Levels == {"RCM 1", "rcm 1", "RCM 1 ", "RCM 2"}
Statuses == {"planned", "in-progress", "ready-for-exam", "completed"}

OpenStatus(i) ==
    CASE i % 3 = 0 -> "planned"
      [] i % 3 = 1 -> "in-progress"
      [] i % 3 = 2 -> "ready-for-exam"

LevelRoster(others, completed, open) ==
    [i \in 1..others |-> [level |-> "rcm 1", status |-> "completed"]]
    \o [i \in 1..completed |-> [level |-> "RCM 1", status |-> "completed"]]
    \o [i \in 1..open |-> [level |-> "RCM 1", status |-> OpenStatus(i)]]

Rosters ==
    {LevelRoster(d, c, o) :
        d \in 0..MaxOtherItems,
        c \in 0..MaxLevelItems,
        o \in 0..MaxLevelItems}

\* Long rosters in which all but a few items of the level are completed,
\* or all but a few are not.
LopsidedRosters ==
    UNION {{LevelRoster(d, k, m - k), LevelRoster(d, m - k, k)} :
              d \in 0..MaxOtherItems,
              m \in MaxOdd..MaxRosterItems,
              k \in 0..MaxOdd}

InitLevel ==
    /\ items \in BoundedSeq([level : Levels, status : Statuses], MaxItems)
                 \cup {r \in Rosters : Len(r) <= MaxLevelItems + MaxOtherItems}
                 \cup LopsidedRosters
    /\ level \in {"RCM 1", "RCM 2"}
    /\ levelProgress = 0
    /\ pc = "idle"
    /\ sessions = <<>>
    /\ tz = "UTC"
    /\ now = DateParse("2024-04-01") + 12
    /\ streak = 0
    /\ dailyPractice = <<>>
    /\ NothingCalled
    /\ AuthIdle
    /\ LogIdle

CallCalculateLevelProgress ==
    /\ pc = "idle"
    /\ levelProgress' = CalculateLevelProgress(items, level)
    /\ outcome' = LevelCompletion(items, level)
    /\ items' = ItemsAfterLevelProgress(items)
    /\ trace' = Append(trace, "calculateLevelProgress")
    /\ pc' = "done"
    /\ UNCHANGED <<level, sessions, tz, now, streak, dailyPractice>>
    /\ UNCHANGED <<serviceVars, providerVars, logVars>>

NextLevel == CallCalculateLevelProgress

SpecLevel == InitLevel /\ [][NextLevel]_vars

(***************************************************************************)
(* Vocabulary of the claims about calculateLevelProgress.                  *)
(***************************************************************************)
\* Indices of the items whose level is exactly the queried one.
AtLevel == {i \in 1..Len(items) : items[i].level = level}

CompletedAtLevel == {i \in AtLevel : items[i].status = "completed"}

\* 100 * c / m rounded to the nearest integer, halves up.
RoundHalfUp(c, m) == (200 * c + m) \div (2 * m)

\* C11: the result is 0 when no item has exactly the queried level, and
\* otherwise 100 * c / m rounded to the nearest integer, halves rounded up,
\* m counting the items of that level and c those of them with status
\* 'completed'.
C11_RoundedCompletionPercentage ==
    pc = "done"
        => /\ levelProgress \in 0..100
           /\ levelProgress =
                  IF AtLevel = {} THEN 0
                  ELSE RoundHalfUp(Cardinality(CompletedAtLevel),
                                   Cardinality(AtLevel))

\* C12: the result is the same as for the list without the items whose
\* level string is not exactly the queried level: adding, removing or
\* changing such items has no effect.
C12_OtherLevelsIgnored ==
    pc = "done"
        => levelProgress =
               CalculateLevelProgress(
                   SelectSeq(items, LAMBDA item : item.level = level), level)

C12_Witness ==
    /\ pc = "done"
    /\ levelProgress = 50
    /\ level = "RCM 1"
    /\ \E i \in 1..Len(items) :
           items[i].level = "rcm 1" /\ items[i].status = "completed"

(***************************************************************************)
(* Specification SpecCalls: a caller that holds one sessions array and one *)
(* syllabus list and calls the three functions on them, in any order and   *)
(* repeatedly, up to MaxCalls calls (usePracticeStats, part_002:9-57,      *)
(* calls calculateStreak and aggregatePracticeByDay on the same array).    *)
(***************************************************************************)
MaxCalls == 3
MaxCallSessions == 2
MaxCallItems == 1

CallDates == {"2024-03-31", "2024-04-01"}
CallSessions == [date : CallDates, durationMinutes : {20}, rating : {3, 4}]
CallItems == [level : {"RCM 1", "RCM 2"}, status : {"planned", "completed"}]

InitCalls ==
    /\ sessions \in BoundedSeq(CallSessions, MaxCallSessions)
    /\ items \in BoundedSeq(CallItems, MaxCallItems)
    /\ level = "RCM 1"
    /\ tz = "UTC"
    /\ now = DateParse("2024-04-01") + 12
    /\ pc = "idle"
    /\ streak = 0
    /\ dailyPractice = <<>>
    /\ levelProgress = 0
    /\ NothingCalled
    /\ AuthIdle
    /\ LogIdle

\* Control is back in the caller, which goes on to its next call.
NextStatement ==
    /\ pc = "done"
    /\ Len(trace) < MaxCalls
    /\ pc' = "idle"
    /\ UNCHANGED <<sessions, tz, now, streak, dailyPractice,
                   items, level, levelProgress, trace, outcome>>
    /\ UNCHANGED <<serviceVars, providerVars, logVars>>

NextCalls ==
    \/ CallCalculateStreak
    \/ CallAggregatePracticeByDay
    \/ CallCalculateLevelProgress
    \/ NextStatement

SpecCalls == InitCalls /\ [][NextCalls]_vars

(***************************************************************************)
(* Vocabulary of the claims about the three functions as a whole.          *)
(***************************************************************************)
Functions ==
    {"calculateStreak", "aggregatePracticeByDay", "calculateLevelProgress"}

\* The step is a call of function f.
IsCallOf(f) == trace' = Append(trace, f)

\* Function f was called before, and another function after that.
CalledBeforeWithOthersSince(f) ==
    \E i \in 1..Len(trace) :
        /\ trace[i] = f
        /\ \E j \in (i + 1)..Len(trace) : trace[j] # f

IsDailyPractice(d) ==
    /\ DOMAIN d = {"date", "totalMinutes", "sessionCount", "averageRating"}
    /\ d.date \in DateStrings
    /\ d.totalMinutes \in Nat
    /\ d.sessionCount \in Nat
    /\ d.averageRating.num \in Int
    /\ d.averageRating.den \in Nat \ {0}

StatsIdle ==
    /\ sessions = <<>>
    /\ tz = "UTC"
    /\ now = DateParse("2024-04-01") + 12
    /\ pc = "idle"
    /\ streak = 0
    /\ dailyPractice = <<>>
    /\ OthersIdle
    /\ NothingCalled

statsVars == <<sessions, tz, now, pc, streak, dailyPractice,
               items, level, levelProgress, trace, outcome>>

\* Auth users the backend knows; email is optional in the backend's type.
AuthUsers ==
    {[id |-> "user-1", email |-> "test@example.com",
      created_at |-> "2024-01-01T00:00:00Z"],
     [id |-> "user-2", email |-> Undefined,
      created_at |-> "2024-02-02T00:00:00Z"]}

BackendMessages == {"Invalid login credentials"}

\* Answers { data: { user }, error } of an auth call: an error without a
\* user, or no error with or without a user.
AuthAnswers ==
    [error : BackendMessages, user : {Null}]
        \cup [error : {NoError}, user : AuthUsers \cup {Null}]

\* Answers { error } of a table or sign-out call.
ErrorAnswers == BackendMessages \cup {NoError}

DisplayNames == {"John Doe"}

\* JavaScript's `value || fallback` on strings.
OrElse(value, fallback) ==
    IF value \in {Undefined, NullValue, ""} THEN fallback ELSE value

MapUserFromAuth(authUser, displayName) ==
    [id |-> authUser.id,
     email |-> OrElse(authUser.email, ""),
     displayName |-> OrElse(displayName, Undefined),
     createdAt |-> authUser.created_at,
     updatedAt |-> authUser.created_at]

Resolved(value) == [kind |-> "resolved", value |-> value]

Rejected(prefix, detail) == [kind |-> "rejected", message |-> <<prefix, detail>>]

\* Mutant of SignUpProfileStep: a failed insert rejects the sign-up.
SignUpRejectsOnProfileError(authUser, displayName, profileError) ==
    IF profileError # NoError
    THEN Rejected("Sign up failed: ", profileError)
    ELSE Resolved(MapUserFromAuth(authUser, displayName))

\* auth.service.ts:32-37: a profile error is logged, nothing more.
SignUpProfileStep(authUser, displayName, profileError) ==
    Resolved(MapUserFromAuth(authUser, displayName))

\* auth.service.ts:11-38, the settlement of the promise.
SignUpResult(displayName, auth, profileError) ==
    IF auth.error # NoError
    THEN Rejected("Sign up failed: ", auth.error)
    ELSE IF auth.user = Null
         THEN Rejected("Sign up failed: ", "No user returned")
         ELSE SignUpProfileStep(auth.user, displayName, profileError)

\* Mutant of SignUpInserts: the row is inserted whenever the backend
\* reported no error, before the user is looked at.
SignUpInsertsWithoutUserCheck(displayName, auth) ==
    IF auth.error # NoError THEN <<>>
    ELSE <<[id |-> IF auth.user = Null THEN Undefined ELSE auth.user.id,
            email |-> IF auth.user = Null THEN Undefined ELSE auth.user.email,
            display_name |-> displayName]>>

\* auth.service.ts:17-30: the rows passed to from('users').insert.
SignUpInserts(displayName, auth) ==
    IF auth.error # NoError \/ auth.user = Null THEN <<>>
    ELSE <<[id |-> auth.user.id,
            email |-> auth.user.email,
            display_name |-> displayName]>>

\* The table after the insert calls: a row whose insert succeeded is there,
\* an undefined display_name being stored as NULL.
ProfilesAfterInsert(table, rows, profileError) ==
    IF rows = <<>> \/ profileError # NoError \/ rows[1].id \notin UserIds
    THEN table
    ELSE [table EXCEPT ![rows[1].id] = OrElse(rows[1].display_name, NullValue)]

\* auth.service.ts:43-65.
SignInResult(auth) ==
    IF auth.error # NoError
    THEN Rejected("Sign in failed: ", auth.error)
    ELSE IF auth.user = Null
         THEN Rejected("Sign in failed: ", "No user returned")
         ELSE Resolved(MapUserFromAuth(auth.user, NullValue))

\* auth.service.ts:70-76.
SignOutResult(error) ==
    IF error # NoError
    THEN Rejected("Sign out failed: ", error)
    ELSE Resolved(Void)

\* Mutant of GetCurrentUserResult: a backend error rejects the promise.
GetCurrentUserRejectsOnError(auth) ==
    IF auth.error # NoError
    THEN Rejected("Failed to get current user: ", auth.error)
    ELSE IF auth.user = Null
         THEN Resolved(Null)
         ELSE Resolved(MapUserFromAuth(auth.user, NullValue))

\* auth.service.ts:81-101.  The profile is not read (lines 96-100).
GetCurrentUserResult(auth) ==
    IF auth.error # NoError
    THEN Resolved(Null)
    ELSE IF auth.user = Null
         THEN Resolved(Null)
         ELSE Resolved(MapUserFromAuth(auth.user, NullValue))

\* auth.service.ts:133-142.
UpdateProfileResult(error) ==
    IF error # NoError
    THEN Rejected("Failed to update profile: ", error)
    ELSE Resolved(Void)

\* The table after update({ display_name }).eq('id', userId).
ProfilesAfterUpdate(table, userId, displayName, error) ==
    IF error # NoError \/ table[userId] = NoRow
    THEN table
    ELSE [table EXCEPT ![userId] = displayName]

(***************************************************************************)
(* Specification SpecAuthService: calls of the AuthService methods, one    *)
(* at a time, against a backend whose users table holds any rows.          *)
(***************************************************************************)
ProviderIdle ==
    /\ user = Null
    /\ loading = TRUE
    /\ initialCall = [kind |-> "pending"]
    /\ pending = {}
    /\ completion = [op |-> "none"]
    /\ lastEvent = NoEvent
    /\ signedOut = FALSE

InitAuthService ==
    /\ profiles \in [UserIds -> DisplayNames \cup {NullValue, NoRow}]
    /\ svcCall = [method |-> "none"]
    /\ svcResult = [kind |-> "none"]
    /\ inserts = <<>>
    /\ ProviderIdle
    /\ StatsIdle
    /\ LogIdle

\* An insert succeeds only where the table has no row with that id.
InsertAnswers(table, rows) ==
    IF rows # <<>> /\ rows[1].id \in UserIds /\ table[rows[1].id] = NoRow
    THEN ErrorAnswers
    ELSE BackendMessages

SignUp ==
    \E displayName \in DisplayNames \cup {Undefined}, auth \in AuthAnswers :
        \E profileError \in
                InsertAnswers(profiles, SignUpInserts(displayName, auth)) :
            /\ svcCall' = [method |-> "signUp", displayName |-> displayName,
                           auth |-> auth, profileError |-> profileError]
            /\ svcResult' = SignUpResult(displayName, auth, profileError)
            /\ inserts' = SignUpInserts(displayName, auth)
            /\ profiles' = ProfilesAfterInsert(profiles, inserts', profileError)
            /\ UNCHANGED <<providerVars, statsVars, logVars>>

SignIn ==
    \E auth \in AuthAnswers :
        /\ svcCall' = [method |-> "signIn", auth |-> auth]
        /\ svcResult' = SignInResult(auth)
        /\ inserts' = <<>>
        /\ UNCHANGED <<profiles, providerVars, statsVars, logVars>>

SignOut ==
    \E error \in ErrorAnswers :
        /\ svcCall' = [method |-> "signOut", error |-> error]
        /\ svcResult' = SignOutResult(error)
        /\ inserts' = <<>>
        /\ UNCHANGED <<profiles, providerVars, statsVars, logVars>>

GetCurrentUser ==
    \E auth \in AuthAnswers :
        /\ svcCall' = [method |-> "getCurrentUser", auth |-> auth]
        /\ svcResult' = GetCurrentUserResult(auth)
        /\ inserts' = <<>>
        /\ UNCHANGED <<profiles, providerVars, statsVars, logVars>>

UpdateProfile ==
    \E userId \in UserIds, displayName \in DisplayNames,
       error \in ErrorAnswers :
        /\ svcCall' = [method |-> "updateProfile", userId |-> userId,
                       displayName |-> displayName, error |-> error]
        /\ svcResult' = UpdateProfileResult(error)
        /\ inserts' = <<>>
        /\ profiles' = ProfilesAfterUpdate(profiles, userId, displayName, error)
        /\ UNCHANGED <<providerVars, statsVars, logVars>>

NextAuthService ==
    \/ SignUp
    \/ SignIn
    \/ SignOut
    \/ GetCurrentUser
    \/ UpdateProfile

SpecAuthService == InitAuthService /\ [][NextAuthService]_vars

(***************************************************************************)
(* Vocabulary of the claims about AuthService.                             *)
(***************************************************************************)
\* The latest call was of `method` and the backend answered with a user.
AnsweredWithUser(method) ==
    /\ svcCall.method = method
    /\ svcCall.auth.error = NoError
    /\ svcCall.auth.user # Null

\* The latest call was of `method` and the backend answered with an error
\* or with neither an error nor a user.
AnsweredWithoutUser(method) ==
    /\ svcCall.method = method
    /\ (svcCall.auth.error # NoError \/ svcCall.auth.user = Null)

\* The detail the rejection message carries for the backend's answer.
FailureDetail(auth) ==
    IF auth.error # NoError THEN auth.error ELSE "No user returned"

\* C16: signIn with correct credentials and getCurrentUser with a logged-in
\* user resolve to a User whose id, email, createdAt and updatedAt are those
\* of the auth user and whose displayName is the display_name stored in
\* that user's row of the users table.
C16_UserCarriesProfileDisplayName ==
    \A method \in {"signIn", "getCurrentUser"} :
        AnsweredWithUser(method)
            => /\ svcResult.kind = "resolved"
               /\ svcResult.value.id = svcCall.auth.user.id
               /\ svcResult.value.email = OrElse(svcCall.auth.user.email, "")
               /\ svcResult.value.createdAt = svcCall.auth.user.created_at
               /\ svcResult.value.updatedAt = svcCall.auth.user.created_at
               /\ profiles[svcCall.auth.user.id] \in DisplayNames
                      => svcResult.value.displayName
                             = profiles[svcCall.auth.user.id]

\* C17: when the backend reports an error or no user, signUp and signIn
\* reject with 'Sign up failed: ' / 'Sign in failed: ' followed by the
\* backend's message or by 'No user returned', and signUp passes no row to
\* the insert into the users table.
C17_AuthFailureRejects ==
    /\ AnsweredWithoutUser("signUp")
           => /\ svcResult =
                      Rejected("Sign up failed: ", FailureDetail(svcCall.auth))
              /\ inserts = <<>>
    /\ AnsweredWithoutUser("signIn")
           => svcResult =
                  Rejected("Sign in failed: ", FailureDetail(svcCall.auth))

\* signUp was answered with neither an error nor a user.
C17_Witness ==
    /\ svcCall.method = "signUp"
    /\ svcCall.auth.error = NoError
    /\ svcCall.auth.user = Null
    /\ svcResult.kind = "rejected"

\* C18: when the backend accepts the sign-up and the insert of the profile
\* row fails, signUp resolves to the User mapped from the auth user and the
\* display name given; the insert was attempted.
C18_ProfileFailureTolerated ==
    (AnsweredWithUser("signUp") /\ svcCall.profileError # NoError)
        => /\ svcResult =
                   Resolved(MapUserFromAuth(svcCall.auth.user,
                                            svcCall.displayName))
           /\ inserts # <<>>

\* An account was created whose profile row is missing.
C18_Witness ==
    /\ AnsweredWithUser("signUp")
    /\ svcCall.profileError # NoError
    /\ svcResult.kind = "resolved"
    /\ profiles[svcCall.auth.user.id] = NoRow

\* C19: getCurrentUser always resolves: to null when the backend reports
\* an error or no logged-in user, to the mapped User otherwise.
C19_GetCurrentUserResolves ==
    svcCall.method = "getCurrentUser"
        => /\ svcResult.kind = "resolved"
           /\ AnsweredWithoutUser("getCurrentUser") => svcResult.value = Null
           /\ AnsweredWithUser("getCurrentUser")
                  => /\ svcResult.value # Null
                     /\ svcResult.value.id = svcCall.auth.user.id

\* getCurrentUser was answered with a backend error.
C19_Witness ==
    /\ svcCall.method = "getCurrentUser"
    /\ svcCall.auth.error # NoError
    /\ svcResult = Resolved(Null)

(***************************************************************************)
(* AuthProvider (AuthContext, PracticeSessionForm.tsx:464-540).  An        *)
(* operation of the provider awaits one AuthService method; between the    *)
(* call and the settlement of that method other callbacks may run.  A      *)
(* pending operation keeps what its closure captured at the call.  The     *)
(* email and password arguments do not appear: the backend's answer is     *)
(* chosen freely whatever they are.                                        *)
(***************************************************************************)
MaxPending == 2

\* How a provider operation settles, given how the awaited service method
\* did: a rejection propagates, otherwise the operation resolves (void).
ProviderSettlement(op, result) ==
    IF result.kind = "rejected"
    THEN [op |-> op, kind |-> "rejected", message |-> result.message]
    ELSE [op |-> op, kind |-> "resolved"]

\* Mutant of StateAfterInitialCall: the value is stored, loading is left.
LoadingLeftAfterInitialCall(result) ==
    IF result.kind = "resolved"
    THEN [user |-> result.value, loading |-> loading]
    ELSE [user |-> user, loading |-> loading]

\* PracticeSessionForm.tsx:485-488: the then-callback runs when the promise
\* resolved; there is no catch.
StateAfterInitialCall(result) ==
    IF result.kind = "resolved"
    THEN [user |-> result.value, loading |-> FALSE]
    ELSE [user |-> user, loading |-> loading]

InitAuthProvider ==
    /\ user = Null
    /\ loading = TRUE
    /\ initialCall = [kind |-> "pending"]
    /\ pending = {}
    /\ completion = [op |-> "none"]
    /\ lastEvent = NoEvent
    /\ signedOut = FALSE
    /\ profiles = [id \in UserIds |-> NoRow]
    /\ svcCall = [method |-> "none"]
    /\ svcResult = [kind |-> "none"]
    /\ inserts = <<>>
    /\ StatsIdle
    /\ LogIdle

\* The getCurrentUser promise of the mount effect settles.
ResolveInitialCall ==
    /\ initialCall = [kind |-> "pending"]
    /\ \E auth \in AuthAnswers :
           LET result == GetCurrentUserResult(auth)
               after == StateAfterInitialCall(result)
           IN  /\ user' = after.user
               /\ loading' = after.loading
               /\ initialCall' = result
    /\ UNCHANGED <<pending, completion, lastEvent, signedOut,
                   serviceVars, statsVars, logVars>>

\* The backend delivers an auth-state-change event to the listener
\* (PracticeSessionForm.tsx:491-494 through auth.service.ts:116-128).
AuthStateChange ==
    /\ \E sessionUser \in AuthUsers \cup {Null} :
           /\ user' = IF sessionUser # Null
                      THEN MapUserFromAuth(sessionUser, NullValue)
                      ELSE Null
           /\ lastEvent' = [user |-> user']
           /\ signedOut' = (signedOut /\ sessionUser = Null)
    /\ loading' = FALSE
    /\ UNCHANGED <<initialCall, pending, completion, serviceVars, statsVars,
                   logVars>>

\* A provider operation is called and awaits the service.
Await(operation) ==
    /\ Cardinality(pending) < MaxPending
    /\ operation \notin pending
    /\ pending' = pending \cup {operation}

CallSignUp ==
    /\ \E displayName \in DisplayNames \cup {Undefined} :
           Await([op |-> "signUp", displayName |-> displayName])
    /\ UNCHANGED <<user, loading, initialCall, completion,
                   lastEvent, signedOut, serviceVars, statsVars, logVars>>

SettleSignUp ==
    \E p \in pending, auth \in AuthAnswers :
        /\ p.op = "signUp"
        /\ \E profileError \in
                   InsertAnswers(profiles, SignUpInserts(p.displayName, auth)) :
               LET result == SignUpResult(p.displayName, auth, profileError)
               IN  /\ user' = IF result.kind = "resolved"
                               THEN result.value ELSE user
                   /\ completion' = ProviderSettlement("signUp", result)
                   /\ signedOut' = (signedOut /\ result.kind # "resolved")
                   /\ profiles' =
                          ProfilesAfterInsert(
                              profiles, SignUpInserts(p.displayName, auth),
                              profileError)
        /\ pending' = pending \ {p}
        /\ lastEvent' = NoEvent
        /\ UNCHANGED <<loading, initialCall, svcCall, svcResult, inserts,
                       statsVars, logVars>>

CallSignIn ==
    /\ Await([op |-> "signIn"])
    /\ UNCHANGED <<user, loading, initialCall, completion,
                   lastEvent, signedOut, serviceVars, statsVars, logVars>>

SettleSignIn ==
    \E p \in pending, auth \in AuthAnswers :
        /\ p.op = "signIn"
        /\ LET result == SignInResult(auth)
           IN  /\ user' = IF result.kind = "resolved"
                           THEN result.value ELSE user
               /\ completion' = ProviderSettlement("signIn", result)
               /\ signedOut' = (signedOut /\ result.kind # "resolved")
        /\ pending' = pending \ {p}
        /\ lastEvent' = NoEvent
        /\ UNCHANGED <<loading, initialCall, serviceVars, statsVars, logVars>>

CallSignOut ==
    /\ Await([op |-> "signOut"])
    /\ UNCHANGED <<user, loading, initialCall, completion,
                   lastEvent, signedOut, serviceVars, statsVars, logVars>>

\* Mutant of UserAfterSignOut: the user is cleared whether or not the
\* service call succeeded.
UserClearedRegardless(current, result) == Null

\* PracticeSessionForm.tsx:512-513: setUser(null) runs when the awaited
\* call resolved; a rejection leaves the function at the await.
UserAfterSignOut(current, result) ==
    IF result.kind = "resolved" THEN Null ELSE current

SettleSignOut ==
    \E p \in pending, error \in ErrorAnswers :
        /\ p.op = "signOut"
        /\ LET result == SignOutResult(error)
           IN  /\ user' = UserAfterSignOut(user, result)
               /\ completion' = ProviderSettlement("signOut", result)
               /\ signedOut' = (signedOut \/ result.kind = "resolved")
        /\ pending' = pending \ {p}
        /\ lastEvent' = NoEvent
        /\ UNCHANGED <<loading, initialCall, serviceVars, statsVars, logVars>>

\* PracticeSessionForm.tsx:518: the service is called with the id of the
\* `user` of the closure, which the pending operation keeps.
UpdateProfileRequest(current, displayName) ==
    [op |-> "updateProfile", user |-> current, userId |-> current.id,
     displayName |-> displayName]

\* Mutant of UserAfterUpdateProfile: the user is rebuilt from id and
\* display name alone.
UserRebuiltAfterUpdateProfile(current, request, result) ==
    IF result.kind = "resolved"
    THEN [request.user EXCEPT !.displayName = request.displayName,
                              !.email = ""]
    ELSE current

\* PracticeSessionForm.tsx:519: setUser({ ...user, displayName }) with the
\* `user` of the closure, when the awaited call resolved.
UserAfterUpdateProfile(current, request, result) ==
    IF result.kind = "resolved"
    THEN [request.user EXCEPT !.displayName = request.displayName]
    ELSE current

\* PracticeSessionForm.tsx:516-518 up to the await: without a user the
\* operation rejects at once; otherwise its closure keeps `user`.
CallUpdateProfile ==
    /\ IF user = Null
       THEN /\ completion' = [op |-> "updateProfile", kind |-> "rejected",
                              message |-> <<"No user logged in">>]
            /\ lastEvent' = NoEvent
            /\ UNCHANGED pending
       ELSE /\ \E displayName \in DisplayNames :
                   Await(UpdateProfileRequest(user, displayName))
            /\ UNCHANGED <<completion, lastEvent>>
    /\ UNCHANGED <<user, loading, initialCall, signedOut,
                   serviceVars, statsVars, logVars>>

\* PracticeSessionForm.tsx:518-519 from the await on.
SettleUpdateProfile ==
    \E p \in pending, error \in ErrorAnswers :
        /\ p.op = "updateProfile"
        /\ LET result == UpdateProfileResult(error)
           IN  /\ user' = UserAfterUpdateProfile(user, p, result)
               /\ completion' = ProviderSettlement("updateProfile", result)
               /\ UNCHANGED signedOut
        /\ profiles' =
               ProfilesAfterUpdate(profiles, p.userId, p.displayName, error)
        /\ pending' = pending \ {p}
        /\ lastEvent' = NoEvent
        /\ UNCHANGED <<loading, initialCall, svcCall, svcResult, inserts,
                       statsVars, logVars>>

NextAuthProvider ==
    \/ ResolveInitialCall
    \/ AuthStateChange
    \/ CallSignUp
    \/ SettleSignUp
    \/ CallSignIn
    \/ SettleSignIn
    \/ CallSignOut
    \/ SettleSignOut
    \/ CallUpdateProfile
    \/ SettleUpdateProfile

SpecAuthProvider == InitAuthProvider /\ [][NextAuthProvider]_vars

\* The backend answers the getUser call of the mount effect.
SpecAuthProviderFair == SpecAuthProvider /\ WF_vars(ResolveInitialCall)

(***************************************************************************)
(* Claims about AuthProvider.                                              *)
(***************************************************************************)
\* The step is the settlement of the initial getCurrentUser call.
InitialCallSettles ==
    initialCall.kind = "pending" /\ initialCall'.kind # "pending"

\* C20: AuthProvider starts with loading = true and user = null; when the
\* initial getCurrentUser call resolves, loading becomes false and user
\* becomes the resolved value (null when nobody is logged in); loading
\* never turns true again, and, the call settling, loading is eventually
\* false for good.
C20_LoadingEnds ==
    /\ (loading = TRUE /\ user = Null)
    /\ [][(InitialCallSettles /\ initialCall'.kind = "resolved")
              => loading' = FALSE /\ user' = initialCall'.value]_vars
    /\ [][loading = FALSE => loading' = FALSE]_vars
    /\ [](initialCall.kind = "resolved" => loading = FALSE)
    /\ <>[](loading = FALSE)

\* The initial call has resolved to a logged-in user before any event and
\* any operation.
C20_Witness ==
    /\ initialCall.kind = "resolved"
    /\ loading = FALSE
    /\ user # Null
    /\ user = initialCall.value
    /\ pending = {}
    /\ completion = [op |-> "none"]
    /\ lastEvent = NoEvent
    /\ signedOut = FALSE

\* The operations of kind `op` that leave, and that join, the pending ones
\* in the step.
Settling(op) == {p \in pending \ pending' : p.op = op}
Joining(op) == {p \in pending' \ pending : p.op = op}

\* C21: signOut leaves user alone when it is called; when the awaited
\* authService.signOut resolves, user becomes null and the operation
\* resolves; when it rejects, the operation rejects with the service's
\* error and user keeps the value it had.
C21_SignOutClearsOnlyOnSuccess ==
    /\ [][Joining("signOut") # {} => user' = user]_vars
    /\ [][Settling("signOut") # {}
              => /\ completion'.op = "signOut"
                 /\ completion'.kind = "resolved" => user' = Null
                 /\ completion'.kind = "rejected"
                        => /\ user' = user
                           /\ completion'.message \in
                                  {<<"Sign out failed: ", m>> :
                                       m \in BackendMessages}]_vars

\* A sign-out was rejected while a user was logged in.
C21_Witness ==
    /\ completion.op = "signOut"
    /\ completion.kind = "rejected"
    /\ user # Null

\* The fields of User other than displayName.
OtherUserFields == {"id", "email", "createdAt", "updatedAt"}

C25_EventUserStands ==
    lastEvent # NoEvent => user = lastEvent.user

\* C26: after a successful signOut user is null until a signUp, a signIn or
\* an auth-state-change event delivers a user, whatever else settles in
\* between, an updateProfile called before the sign-out included.
C26_SignedOutStaysNull ==
    signedOut => user = Null

\* C28 as stated: for a list with any number of items at the queried
\* level, the result is 100 only if some item has the level and all items
\* of the level are completed, and 0 only if none of them is completed.
C28_ExtremesAnyLength ==
    pc = "done"
        => /\ levelProgress = 100 =>
                  (AtLevel # {} /\ CompletedAtLevel = AtLevel)
           /\ levelProgress = 0 => CompletedAtLevel = {}

\* C28 amended: the same for a list with fewer than 200 items at the
\* queried level.
C28_ExtremesBelow200 ==
    (pc = "done" /\ Cardinality(AtLevel) < 200)
        => /\ levelProgress = 100 =>
                  (AtLevel # {} /\ CompletedAtLevel = AtLevel)
           /\ levelProgress = 0 => CompletedAtLevel = {}

\* 198 of 199 items of the level are completed and the result is 99.
C28_Witness ==
    /\ pc = "done"
    /\ Cardinality(AtLevel) = 199
    /\ Cardinality(CompletedAtLevel) = 198
    /\ levelProgress = 99

\* C24: when some record is dated after the caller's local today,
\* calculateStreak returns 0, whatever the other records are.
C24_FutureDateIsZero ==
    (pc = "done" /\ \E i \in 1..Len(sessions) :
                        DayOf(sessions[i].date) > LocalToday)
        => streak = 0

(***************************************************************************)
(* usePracticeSessions (part_002:62-131) and PracticeLogPage               *)
(* (PracticeLogPage.tsx), the only user of the hook.  A session is kept as *)
(* its id and its date.  PracticeService (part_004:207-355) is the         *)
(* environment: a call of it resolves with a well-formed value or rejects. *)
(* The code that runs when a service promise settles (the hook's           *)
(* continuation, then the page's, then the form's) is one step: no event   *)
(* handler can run in between.                                             *)
(***************************************************************************)
MaxRequests == 2
MaxLoaded == 2

SessionIds == {"s1", "s2"}
LogDates == {"2024-03-31", "2024-04-01"}
LogSessions == [id : SessionIds, date : LogDates]

\* What a rejected service promise carries: an Error with a message
\* (part_004:219) or a value that is no Error.
Thrown ==
    {[isError |-> TRUE, message |-> "User not authenticated"],
     [isError |-> FALSE]}

\* err instanceof Error ? err.message : fallback
ErrorMessage(thrown, fallback) ==
    IF thrown.isError THEN thrown.message ELSE fallback

\* Most recent first, as .order('date', { ascending: false }) returns rows
\* (part_004:283).
IsDescending(list) ==
    \A i \in 1..(Len(list) - 1) :
        DateParse(list[i].date) >= DateParse(list[i + 1].date)

HasDistinctIds(list) ==
    \A i, j \in 1..Len(list) : list[i].id = list[j].id => i = j

\* The lists getSessions can resolve to.
Loadable ==
    {list \in BoundedSeq(LogSessions, MaxLoaded) :
        IsDescending(list) /\ HasDistinctIds(list)}

\* Mutant of SessionsAfterCreate: the new session is put at the end.
SessionsWithNewLast(prev, newSession) == Append(prev, newSession)

\* part_002:90.
SessionsAfterCreate(prev, newSession) == <<newSession>> \o prev

\* part_002:100-102.
SessionsAfterUpdate(prev, id, updated) ==
    [i \in 1..Len(prev) |-> IF prev[i].id = id THEN updated ELSE prev[i]]

\* part_002:112.
SessionsAfterDelete(prev, id) ==
    SelectSeq(prev, LAMBDA session : session.id # id)

\* Mutant of PageAfterSubmit: a failed submit closes the form as well.
PageClosedAfterSubmit(result) ==
    [showForm |-> FALSE, editingSession |-> Null,
     pageError |-> IF result.kind = "returned" THEN pageError
                   ELSE result.message]

\* PracticeLogPage.tsx:44-48, the continuation of handleSubmit after the
\* await, given how the hook's operation settled; what the hook throws is
\* an Error.
PageAfterSubmit(result) ==
    IF result.kind = "returned"
    THEN [showForm |-> FALSE, editingSession |-> Null,
          pageError |-> pageError]
    ELSE [showForm |-> showForm, editingSession |-> editingSession,
          pageError |-> ErrorMessage([isError |-> TRUE,
                                      message |-> result.message],
                                     "Failed to save session")]

InitPracticeLog ==
    /\ logSessions = <<>>
    /\ logLoading = TRUE
    /\ loadError = NullValue
    /\ requests = {}
    /\ settled = [op |-> "none"]
    /\ showForm = FALSE
    /\ editingSession = Null
    /\ pageError = NullValue
    /\ submitted = Null
    /\ StatsIdle
    /\ AuthIdle

\* part_002:74-85 from the await on; the call was made by the mount effect
\* (part_002:118-120), which set loading and cleared error.
SettleLoadSessions ==
    /\ logLoading = TRUE
    /\ \/ \E data \in Loadable :
              /\ logSessions' = data
              /\ settled' = [op |-> "loadSessions", kind |-> "returned"]
              /\ UNCHANGED loadError
       \/ \E thrown \in Thrown :
              /\ loadError' = ErrorMessage(thrown, "Failed to load sessions")
              /\ settled' = [op |-> "loadSessions", kind |-> "failed"]
              /\ UNCHANGED logSessions
    /\ logLoading' = FALSE
    /\ UNCHANGED <<requests, showForm, editingSession, pageError, submitted,
                   statsVars, serviceVars, providerVars>>

\* PracticeLogPage.tsx:102-105; the button is rendered when the page is not
\* loading and the form is not shown.  The form mounts.
ClickLogPractice ==
    /\ logLoading = FALSE
    /\ showForm = FALSE
    /\ showForm' = TRUE
    /\ submitted' = Null
    /\ UNCHANGED <<logSessions, logLoading, loadError, requests, settled,
                   editingSession, pageError,
                   statsVars, serviceVars, providerVars>>

\* PracticeLogPage.tsx:52-55; the list is rendered when the page is not
\* loading and the form is not shown.  The form mounts.
HandleEdit ==
    /\ logLoading = FALSE
    /\ showForm = FALSE
    /\ \E i \in 1..Len(logSessions) : editingSession' = logSessions[i]
    /\ showForm' = TRUE
    /\ submitted' = Null
    /\ UNCHANGED <<logSessions, logLoading, loadError, requests, settled,
                   pageError, statsVars, serviceVars, providerVars>>

\* PracticeLogPage.tsx:70-74; the form, and its Cancel button, is rendered
\* when showForm is true.  The form unmounts.
HandleCancel ==
    /\ logLoading = FALSE
    /\ showForm = TRUE
    /\ showForm' = FALSE
    /\ editingSession' = Null
    /\ pageError' = NullValue
    /\ submitted' = Null
    /\ UNCHANGED <<logSessions, logLoading, loadError, requests, settled,
                   statsVars, serviceVars, providerVars>>

\* A hook operation is called and awaits the service.
AwaitService(request) ==
    /\ Cardinality(requests) < MaxRequests
    /\ request \notin requests
    /\ requests' = requests \cup {request}

\* The request handleSubmit makes (PracticeLogPage.tsx:36-42).
SubmitRequest(editing, date) ==
    IF editing # Null
    THEN [op |-> "updateSession", id |-> editing.id, date |-> date]
    ELSE [op |-> "createSession", date |-> date]

\* The form is submitted: PracticeSessionForm.tsx:69-72, its button being
\* disabled while submitting, then PracticeLogPage.tsx:25-42 up to the
\* await.
SubmitForm ==
    /\ logLoading = FALSE
    /\ showForm = TRUE
    /\ submitted = Null
    /\ \E date \in LogDates :
           /\ AwaitService(SubmitRequest(editingSession, date))
           /\ submitted' = SubmitRequest(editingSession, date)
    /\ pageError' = NullValue
    /\ UNCHANGED <<logSessions, logLoading, loadError, settled,
                   showForm, editingSession,
                   statsVars, serviceVars, providerVars>>

\* PracticeLogPage.tsx:57-64 up to the await, the user confirming.
HandleDelete ==
    /\ logLoading = FALSE
    /\ showForm = FALSE
    /\ \E i \in 1..Len(logSessions) :
           AwaitService([op |-> "deleteSession", id |-> logSessions[i].id])
    /\ pageError' = NullValue
    /\ UNCHANGED <<logSessions, logLoading, loadError, settled,
                   showForm, editingSession, submitted,
                   statsVars, serviceVars, providerVars>>

\* The page and the form after the hook operation of a submit settled with
\* `result`: handleSubmit's continuation, then the form's finally
\* (PracticeSessionForm.tsx:73-77) when the form that submitted is still
\* mounted.
SubmitSettles(request, result) ==
    LET after == PageAfterSubmit(result)
    IN  /\ showForm' = after.showForm
        /\ editingSession' = after.editingSession
        /\ pageError' = after.pageError
        /\ submitted' = IF submitted = request \/ ~after.showForm
                        THEN Null ELSE submitted

\* part_002:87-95 from the await on, then the page.
SettleCreateSession ==
    \E request \in requests :
        /\ request.op = "createSession"
        /\ \/ \E id \in SessionIds :
                  /\ \A i \in 1..Len(logSessions) : logSessions[i].id # id
                  /\ LET newSession == [id |-> id, date |-> request.date]
                         result == [op |-> "createSession",
                                    kind |-> "returned",
                                    value |-> newSession]
                     IN  /\ logSessions' =
                                SessionsAfterCreate(logSessions, newSession)
                         /\ settled' = result
                         /\ SubmitSettles(request, result)
           \/ \E thrown \in Thrown :
                  LET result ==
                          [op |-> "createSession", kind |-> "threw",
                           message |->
                               ErrorMessage(thrown, "Failed to create session")]
                  IN  /\ UNCHANGED logSessions
                      /\ settled' = result
                      /\ SubmitSettles(request, result)
        /\ requests' = requests \ {request}
        /\ UNCHANGED <<logLoading, loadError,
                       statsVars, serviceVars, providerVars>>

\* part_002:97-107 from the await on, then the page.
SettleUpdateSession ==
    \E request \in requests :
        /\ request.op = "updateSession"
        /\ \/ LET updated == [id |-> request.id, date |-> request.date]
                   result == [op |-> "updateSession", kind |-> "returned",
                              value |-> updated]
               IN  /\ logSessions' =
                          SessionsAfterUpdate(logSessions, request.id, updated)
                   /\ settled' = result
                   /\ SubmitSettles(request, result)
           \/ \E thrown \in Thrown :
                  LET result ==
                          [op |-> "updateSession", kind |-> "threw",
                           message |->
                               ErrorMessage(thrown, "Failed to update session")]
                  IN  /\ UNCHANGED logSessions
                      /\ settled' = result
                      /\ SubmitSettles(request, result)
        /\ requests' = requests \ {request}
        /\ UNCHANGED <<logLoading, loadError,
                       statsVars, serviceVars, providerVars>>

\* part_002:109-116 from the await on, then PracticeLogPage.tsx:65-67.
SettleDeleteSession ==
    \E request \in requests :
        /\ request.op = "deleteSession"
        /\ \/ /\ logSessions' = SessionsAfterDelete(logSessions, request.id)
              /\ settled' = [op |-> "deleteSession", kind |-> "returned",
                             value |-> Void]
              /\ UNCHANGED pageError
           \/ \E thrown \in Thrown :
                  LET message ==
                          ErrorMessage(thrown, "Failed to delete session")
                  IN  /\ UNCHANGED logSessions
                      /\ settled' = [op |-> "deleteSession", kind |-> "threw",
                                     message |-> message]
                      /\ pageError' = message
        /\ requests' = requests \ {request}
        /\ UNCHANGED <<logLoading, loadError, showForm, editingSession,
                       submitted, statsVars, serviceVars, providerVars>>

NextPracticeLog ==
    \/ SettleLoadSessions
    \/ ClickLogPractice
    \/ HandleEdit
    \/ HandleCancel
    \/ SubmitForm
    \/ HandleDelete
    \/ SettleCreateSession
    \/ SettleUpdateSession
    \/ SettleDeleteSession

SpecPracticeLog == InitPracticeLog /\ [][NextPracticeLog]_vars

\* The requests that settle in a step.
SettlingRequests == requests \ requests'

\* C23: whatever loadSessions, createSession, updateSession and
\* deleteSession calls succeeded, the list of the hook is ordered by date,
\* most recent first.
C23_SessionsMostRecentFirst == IsDescending(logSessions)

\* The positions of `list` whose entry has another id than `id`.
KeptPositions(list, id) == {i \in 1..Len(list) : list[i].id # id}

C29_FormAndEditingSession ==
    /\ [](editingSession # Null => showForm = TRUE)
    /\ [][/\ (showForm /\ requests' = requests) =>
                (showForm' = FALSE /\ editingSession' = Null)
          /\ \A r \in SettlingRequests :
                r.op \in {"createSession", "updateSession"} =>
                    /\ settled'.kind = "returned" =>
                          (showForm' = FALSE /\ editingSession' = Null)
                    /\ settled'.kind = "threw" =>
                          /\ pageError' = settled'.message
                          /\ showForm' = showForm
                          /\ editingSession' = editingSession]_vars

\* An update submitted from the edit form failed: the form is still shown
\* for the session being edited, with the error.
C29_Witness ==
    /\ settled.op = "updateSession"
    /\ settled.kind = "threw"
    /\ showForm = TRUE
    /\ editingSession # Null
    /\ pageError = settled.message
    /\ submitted = Null

====
